---- MODULE Spec2Model ----
(***************************************************************************)
(* Model of query_data.py: the slide paginator with its persisted deck,    *)
(* the title normalisation, and the update / reset paths of the vector     *)
(* index.  Strings are TLA+ strings; Len, SubSeq and \o act on them        *)
(* character by character.                                                 *)
(***************************************************************************)
EXTENDS Integers, Sequences, FiniteSets, TLC

VARIABLES
    pc,               \* "idle", "loop" (inside add_slide_with_content), "done"
    query_text,       \* the text typed into the chat input (the slide title)
    content,          \* response_text handed to update_presentation
    title,            \* local `title` of add_slide_with_content
    paragraphs,       \* content.split("\n")
    idx,              \* position of the for loop in paragraphs
    current_content,  \* accumulator of the loop
    first_slide,      \* flag of the loop
    prs,              \* slides of the in-memory Presentation
    base,             \* number of slides prs held when it was opened
    deckFile,         \* output_presentation.pptx: [exists, slides]
    queries,          \* number of query/export cycles finished
    messages,         \* st.session_state.messages
    curLines,         \* history: input lines held by current_content
    flushed,          \* history: [n, body] of each flush of this call, n = input lines held
    data,             \* data directory: file name -> number of chunks (0: no file)
    index,            \* ids stored in the vector index
    trail,            \* history: the last two index passes since the documents last changed
    embedCalls,       \* embedding calls of the last synchronisation pass
    upserts,          \* entries written by the last synchronisation pass
    skipped           \* chunks skipped by the last synchronisation pass

vars == <<pc, query_text, content, title, paragraphs, idx, current_content,
          first_slide, prs, base, deckFile, queries, messages, curLines, flushed,
          data, index, trail, embedCalls, upserts, skipped>>

pagVars == <<pc, query_text, content, title, paragraphs, idx, current_content,
             first_slide, prs, base, deckFile, queries, messages, curLines, flushed>>

syncVars == <<data, index, trail, embedCalls, upserts, skipped>>

---------------------------------------------------------------------------
(* Strings *)

NL == "\n"

MAX_CHARS_PER_SLIDE == 600

\* c repeated n times
RECURSIVE Rep(_, _)
Rep(c, n) ==
    IF n = 0 THEN ""
    ELSE IF n % 2 = 0 THEN LET h == Rep(c, n \div 2) IN h \o h
    ELSE c \o Rep(c, n - 1)

CharAt(s, k) == SubSeq(s, k, k)

\* positions of the separator in s
NLPos(s) == {k \in 1..Len(s) : CharAt(s, k) = NL}

\* the n-th smallest element of a set of integers
NthPos(P, n) == CHOOSE k \in P : Cardinality({j \in P : j < k}) = n - 1

\* str.split("\n"): one piece more than there are separators, empty pieces kept
Split(s) ==
    LET P == NLPos(s)
        n == Cardinality(P)
        from(k) == IF k = 1 THEN 1 ELSE NthPos(P, k - 1) + 1
        to(k) == IF k = n + 1 THEN Len(s) ELSE NthPos(P, k) - 1
    IN  [k \in 1..(n + 1) |-> IF from(k) > to(k) THEN "" ELSE SubSeq(s, from(k), to(k))]

\* "\n".join(seq)
RECURSIVE JoinNL(_)
JoinNL(seq) ==
    IF Len(seq) = 0 THEN ""
    ELSE IF Len(seq) = 1 THEN seq[1]
    ELSE seq[1] \o NL \o JoinNL(Tail(seq))

UpperChars == "ABCDEFGHIJKLMNOPQRSTUVWXYZ"
LowerChars == "abcdefghijklmnopqrstuvwxyz"

LowerChar(c) ==
    IF \E k \in 1..Len(UpperChars) : CharAt(UpperChars, k) = c
    THEN CharAt(LowerChars, CHOOSE k \in 1..Len(UpperChars) : CharAt(UpperChars, k) = c)
    ELSE c

\* str.lower() on ASCII text
RECURSIVE Lower(_)
Lower(s) ==
    IF Len(s) = 0 THEN ""
    ELSE LowerChar(CharAt(s, 1)) \o Lower(SubSeq(s, 2, Len(s)))

\* sub in s
Contains(s, sub) ==
    \E k \in 1..(Len(s) - Len(sub) + 1) : SubSeq(s, k, k + Len(sub) - 1) = sub

---------------------------------------------------------------------------
(* add_slide_with_content and its helpers *)

special_cases ==
    <<"summary", "question", "questions", "mcq", "fill in the blanks",
      "fill in the blank", "case study", "case studies">>

\* variant: the trigger test on the title as typed, without lower()
NormalizeTitle_CaseSensitive(t) ==
    IF \E k \in 1..Len(special_cases) : Contains(t, special_cases[k])
    THEN IF Contains(t, "summary") THEN "Summary:"
         ELSE IF Contains(t, "case study") \/ Contains(t, "case studies")
              THEN "Case study:"
              ELSE "Q&A:"
    ELSE t

NormalizeTitle(t) ==
    LET low == Lower(t) IN
    IF \E k \in 1..Len(special_cases) : Contains(low, special_cases[k])
    THEN IF Contains(low, "summary") THEN "Summary:"
         ELSE IF Contains(low, "case study") \/ Contains(low, "case studies")
              THEN "Case study:"
              ELSE "Q&A:"
    ELSE t

\* variant: the test looks at the paragraph alone
Overflows_ParagraphOnly(cur, paragraph) == Len(paragraph) > MAX_CHARS_PER_SLIDE

\* the test that starts a new slide
Overflows(cur, paragraph) == Len(cur) + Len(paragraph) > MAX_CHARS_PER_SLIDE

\* the else branch of the loop body
Accumulate(cur, paragraph) ==
    (IF cur /= "" THEN cur \o NL ELSE cur) \o paragraph

\* variant: every slide gets the title
AddContentToSlide_AlwaysTitled(slides, t, body, is_first_slide) ==
    Append(slides, [title |-> t, body |-> body])

\* a slide of layout 1: the title placeholder stays empty unless it is set; the
\* body is the text given to the content placeholder
AddContentToSlide(slides, t, body, is_first_slide) ==
    Append(slides, [title |-> IF is_first_slide THEN t ELSE "", body |-> body])

\* variant: always a new Presentation()
LoadPresentation_AlwaysNew(file) == <<>>

\* Presentation(PPTX_FILE_PATH) if the file exists, else an empty Presentation()
LoadPresentation(file) == IF file.exists THEN file.slides ELSE <<>>

NoFile == [exists |-> FALSE, slides |-> <<>>]

\* variant: nothing is flushed when the accumulator is empty
FinalFlush_SkipEmpty(slides, t, cur, is_first_slide) ==
    IF cur = "" THEN slides ELSE AddContentToSlide(slides, t, cur, is_first_slide)

\* the flush after the loop: whatever is left becomes a slide
FinalFlush(slides, t, cur, is_first_slide) ==
    AddContentToSlide(slides, t, cur, is_first_slide)

---------------------------------------------------------------------------
(* Inputs of the paginator *)

MaxLines == 3
MaxQueries == 2
DeckMaxLines == 2

Letters == {"a", "b"}
LineLens == {0, 1, 300, 600, 700}

LinesOf(letters, lens) == {Rep(c, n) : c \in letters, n \in lens}

ContentsOf(lines, maxLines) ==
    {JoinNL(ls) : ls \in UNION {[1..k -> lines] : k \in 1..maxLines}}

Contents == ContentsOf(LinesOf(Letters, LineLens), MaxLines)

QueryTitles == {"What is RAG?", "Give me a Summary of chapter 2"}

DeckContents == ContentsOf(LinesOf({"a"}, {300, 601}), DeckMaxLines)

DeckTitles == {"Explain MCQ design"}

TitlePrefixes == {"", "Write a "}
TitleSuffixes == {"", " for unit 3"}
TitleCores ==
    {"Summary", "summary", "SUMMARY", "Summary:", "summar y",
     "case study", "Case Studies", "Case study:", "case stud", "case studies summary",
     "question", "Questions", "ques tion", "question summary",
     "MCQ", "mcq", "MCQ on a case study", "mc q",
     "Fill in the Blanks", "fill in the blank", "fill in the",
     "Q&A:", "What is RAG?"}

Titles == {p \o c \o x : p \in TitlePrefixes, c \in TitleCores, x \in TitleSuffixes}

TitleContents == {"ok", Rep("a", 700)}

\* a deck left by an earlier session
PriorDecks == {NoFile, [exists |-> TRUE, slides |-> <<[title |-> "Q&A:", body |-> "old"]>>]}

---------------------------------------------------------------------------
(* One query/export cycle: main -> query_database -> update_presentation *)

\* update_presentation opens the deck and add_slide_with_content runs up to its loop
BeginQuery(titles, contents, maxQueries) ==
    /\ pc \in {"idle", "done"}
    /\ queries < maxQueries
    /\ \E q \in titles, c \in contents :
          /\ query_text' = q
          /\ content' = c
          /\ title' = NormalizeTitle(q)
          /\ paragraphs' = Split(c)
    /\ prs' = LoadPresentation(deckFile)
    /\ base' = Len(LoadPresentation(deckFile))
    /\ current_content' = ""
    /\ first_slide' = TRUE
    /\ idx' = 1
    /\ curLines' = 0
    /\ flushed' = <<>>
    /\ pc' = "loop"
    /\ UNCHANGED <<deckFile, queries, messages>>
    /\ UNCHANGED syncVars

\* loop body, if branch: flush the accumulator and restart it with this paragraph
LoopFlush ==
    /\ pc = "loop"
    /\ idx <= Len(paragraphs)
    /\ Overflows(current_content, paragraphs[idx])
    /\ prs' = AddContentToSlide(prs, title, current_content, first_slide)
    /\ first_slide' = FALSE
    /\ current_content' = paragraphs[idx]
    /\ idx' = idx + 1
    /\ flushed' = Append(flushed, [n |-> curLines, body |-> current_content])
    /\ curLines' = 1
    /\ UNCHANGED <<pc, query_text, content, title, paragraphs, base, deckFile, queries,
                   messages>>
    /\ UNCHANGED syncVars

\* loop body, else branch: add this paragraph to the accumulator
LoopAppend ==
    /\ pc = "loop"
    /\ idx <= Len(paragraphs)
    /\ ~Overflows(current_content, paragraphs[idx])
    /\ current_content' = Accumulate(current_content, paragraphs[idx])
    /\ idx' = idx + 1
    /\ curLines' = curLines + 1
    /\ UNCHANGED <<pc, query_text, content, title, paragraphs, first_slide, prs, base,
                   deckFile, queries, messages, flushed>>
    /\ UNCHANGED syncVars

\* after the loop: the last flush, then prs.save(PPTX_FILE_PATH); back in main the
\* query and the response join the chat history
FinishQuery ==
    /\ pc = "loop"
    /\ idx > Len(paragraphs)
    /\ prs' = FinalFlush(prs, title, current_content, first_slide)
    /\ deckFile' = [exists |-> TRUE,
                    slides |-> FinalFlush(prs, title, current_content, first_slide)]
    /\ flushed' = Append(flushed, [n |-> curLines, body |-> current_content])
    /\ queries' = queries + 1
    /\ messages' = messages \o <<[role |-> "user", content |-> query_text],
                               [role |-> "bot", content |-> content]>>
    /\ pc' = "done"
    /\ UNCHANGED <<query_text, content, title, paragraphs, idx, current_content,
                   first_slide, base, curLines>>
    /\ UNCHANGED syncVars

---------------------------------------------------------------------------
(* The vector index: populate_database as the specification describes it *)

Files == {"a.pdf", "b.pdf"}
MaxChunks == 2

\* Identity Assigner: source_path ":" page_number ":" chunk_index
ChunkId(source, page, chunk_index) ==
    source \o ":" \o ToString(page) \o ":" \o ToString(chunk_index)

\* load_documents, split_documents and the ids of the chunks: file f holds d[f]
\* chunks, all on page 0
ChunkIds(d) == UNION {{ChunkId(f, 0, k) : k \in 0..(d[f] - 1)} : f \in Files}

\* sync: embed and upsert the chunks whose id the store lacks; a chunk whose
\* embedding or write fails (failed) is skipped, the rest of the batch proceeds
AddToChroma(store, chunks, failed) ==
    LET new_chunks == chunks \ store IN
    [index      |-> store \cup (new_chunks \ failed),
     embedCalls |-> Cardinality(new_chunks),
     upserts    |-> Cardinality(new_chunks \ failed),
     skipped    |-> Cardinality(new_chunks \cap failed)]

\* delete: remove from the store the ids of the given chunks
DeleteDatabase(store, chunks) == store \ chunks

\* the last two passes
Trail(t, op) == IF Len(t) = 0 THEN <<op>> ELSE <<t[Len(t)], op>>

---------------------------------------------------------------------------
(* Sidebar handlers *)

\* setup_sidebar: an uploaded file is written into the data directory
UploadFile ==
    /\ \E f \in Files, n \in 1..MaxChunks :
          /\ data[f] /= n
          /\ data' = [data EXCEPT ![f] = n]
    /\ trail' = <<>>
    /\ UNCHANGED <<index, embedCalls, upserts, skipped>>
    /\ UNCHANGED pagVars

\* display_uploaded_files: the Delete button removes the file
DeleteFile ==
    /\ \E f \in Files :
          /\ data[f] > 0
          /\ data' = [data EXCEPT ![f] = 0]
    /\ trail' = <<>>
    /\ UNCHANGED <<index, embedCalls, upserts, skipped>>
    /\ UNCHANGED pagVars

\* variant: the update deletes the current chunks before adding them, as the reset does
UpdateVectorDatabase_Rebuild ==
    /\ \E failed \in SUBSET ChunkIds(data) :
          LET r == AddToChroma(DeleteDatabase(index, ChunkIds(data)), ChunkIds(data), failed) IN
          /\ index' = r.index
          /\ embedCalls' = r.embedCalls
          /\ upserts' = r.upserts
          /\ skipped' = r.skipped
    /\ trail' = Trail(trail, "update")
    /\ UNCHANGED data
    /\ UNCHANGED pagVars

\* update_vector_database: load, split, add_to_chroma
UpdateVectorDatabase ==
    /\ \E failed \in SUBSET (ChunkIds(data) \ index) :
          LET r == AddToChroma(index, ChunkIds(data), failed) IN
          /\ index' = r.index
          /\ embedCalls' = r.embedCalls
          /\ upserts' = r.upserts
          /\ skipped' = r.skipped
    /\ trail' = Trail(trail, "update")
    /\ UNCHANGED data
    /\ UNCHANGED pagVars

\* reset_vector_database: load, split, delete_database, load, split, add_to_chroma
ResetVectorDatabase ==
    /\ \E failed \in SUBSET ChunkIds(data) :
          LET cleared == DeleteDatabase(index, ChunkIds(data))
              r == AddToChroma(cleared, ChunkIds(data), failed) IN
          /\ index' = r.index
          /\ embedCalls' = r.embedCalls
          /\ upserts' = r.upserts
          /\ skipped' = r.skipped
    /\ trail' = Trail(trail, "reset")
    /\ UNCHANGED data
    /\ UNCHANGED pagVars

---------------------------------------------------------------------------
(* Initial states *)

PagIdle ==
    /\ pc = "idle"
    /\ query_text = ""
    /\ content = ""
    /\ title = ""
    /\ paragraphs = <<>>
    /\ idx = 1
    /\ current_content = ""
    /\ first_slide = TRUE
    /\ prs = <<>>
    /\ base = 0
    /\ queries = 0
    /\ messages = <<>>
    /\ curLines = 0
    /\ flushed = <<>>

SyncIdle ==
    /\ data = [f \in Files |-> 0]
    /\ index = {}
    /\ trail = <<>>
    /\ embedCalls = 0
    /\ upserts = 0
    /\ skipped = 0

\* one query, on top of whatever deck an earlier session left
Init == PagIdle /\ deckFile \in PriorDecks /\ SyncIdle

Next ==
    \/ BeginQuery(QueryTitles, Contents, 1)
    \/ LoopFlush
    \/ LoopAppend
    \/ FinishQuery

Spec == Init /\ [][Next]_vars

\* a session of several queries starting without a deck
DeckInit == PagIdle /\ deckFile = NoFile /\ SyncIdle

DeckNext ==
    \/ BeginQuery(DeckTitles, DeckContents, MaxQueries)
    \/ LoopFlush
    \/ LoopAppend
    \/ FinishQuery

DeckSpec == DeckInit /\ [][DeckNext]_vars

\* the sidebar alone: uploads, deletions, updates and resets
SyncInit == PagIdle /\ deckFile = NoFile /\ SyncIdle

SyncNext ==
    \/ UploadFile
    \/ DeleteFile
    \/ UpdateVectorDatabase
    \/ ResetVectorDatabase

SyncSpec == SyncInit /\ [][SyncNext]_vars

\* one query per title
TitleInit == PagIdle /\ deckFile = NoFile /\ SyncIdle

TitleNext ==
    \/ BeginQuery(Titles, TitleContents, 1)
    \/ LoopFlush
    \/ LoopAppend
    \/ FinishQuery

TitleSpec == TitleInit /\ [][TitleNext]_vars

\* slides added so far by the current call, and their bodies
NewSlides == SubSeq(prs, base + 1, Len(prs))
NewBodies == [k \in 1..Len(NewSlides) |-> NewSlides[k].body]

Range(seq) == {seq[k] : k \in 1..Len(seq)}

\* the lines of a sequence of bodies, read body after body
RECURSIVE BodyLines(_)
BodyLines(bodies) ==
    IF Len(bodies) = 0 THEN <<>> ELSE Split(bodies[1]) \o BodyLines(Tail(bodies))

---------------------------------------------------------------------------
(* Claims about the paginator *)

\* C1: every slide body produced by add_slide_with_content is at most
\* MAX_CHARS_PER_SLIDE characters long, newlines included, unless the body is a
\* single input line that is itself longer than MAX_CHARS_PER_SLIDE.
C1_PaginationBound ==
    \A k \in 1..Len(NewSlides) :
        \/ Len(NewSlides[k].body) <= MAX_CHARS_PER_SLIDE
        \/ NewSlides[k].body \in Range(paragraphs)

\* C2: the bodies of the slides of one call, joined in order by the newline,
\* give back the content string exactly.
C2_PaginationComplete ==
    pc = "done" => JoinNL(NewBodies) = content

\* C5: a finished call has added at least one slide, whatever the content.
C5_AtLeastOneSlide ==
    pc = "done" => Len(prs) >= base + 1

C5_Witness ==
    /\ pc = "done"
    /\ content = ""
    /\ Len(NewSlides) = 1
    /\ NewSlides[1].body = ""

\* C7: of the slides of one call exactly the first carries the title; first_slide
\* is true up to the first flush and false from then on, the final flush included.
C7_TitleOnFirstOnly ==
    /\ \A k \in 1..Len(NewSlides) : NewSlides[k].title = IF k = 1 THEN title ELSE ""
    /\ pc \in {"loop", "done"} => title /= ""
    /\ pc = "loop" => (first_slide <=> Len(NewSlides) = 0)

C7_Witness ==
    /\ pc = "done"
    /\ Len(NewSlides) >= 3
    /\ NewSlides[1].title = "Summary:"
    /\ NewSlides[3].title = ""

\* C8: reading the lines of the slide bodies in slide order gives the input lines
\* in their original order, every line whole and in exactly one body.
C8_LinesPreserved ==
    pc = "done" => BodyLines(NewBodies) = paragraphs

\* C10: the accumulator and every flushed body that hold two or more input lines
\* are at most MAX_CHARS_PER_SLIDE + 1 long, and whatever is longer than
\* MAX_CHARS_PER_SLIDE + 1 is a single input line.
C10_AccumulatorBound ==
    /\ curLines >= 2 => Len(current_content) <= MAX_CHARS_PER_SLIDE + 1
    /\ Len(current_content) > MAX_CHARS_PER_SLIDE + 1 =>
          curLines = 1 /\ current_content \in Range(paragraphs)
    /\ \A k \in 1..Len(NewSlides) :
          /\ flushed[k].n >= 2 => Len(NewSlides[k].body) <= MAX_CHARS_PER_SLIDE + 1
          /\ Len(NewSlides[k].body) > MAX_CHARS_PER_SLIDE + 1 =>
                flushed[k].n = 1 /\ NewSlides[k].body \in Range(paragraphs)

C10_Witness ==
    /\ pc = "done"
    /\ \E k \in 1..Len(NewSlides) :
          flushed[k].n >= 2 /\ Len(NewSlides[k].body) = MAX_CHARS_PER_SLIDE + 1
    /\ \E k \in 1..Len(NewSlides) : Len(NewSlides[k].body) > MAX_CHARS_PER_SLIDE + 1

\* C6: every save of the deck keeps the slides it held as a prefix, appends the
\* slides of the answer in the order they were produced, and makes it longer.
C6_DeckAppendOnly ==
    [][deckFile' /= deckFile =>
          /\ Len(deckFile'.slides) > Len(deckFile.slides)
          /\ SubSeq(deckFile'.slides, 1, Len(deckFile.slides)) = deckFile.slides
          /\ SubSeq(deckFile'.slides, Len(deckFile.slides) + 1, Len(deckFile'.slides))
                = [k \in 1..Len(flushed') |->
                      [title |-> IF k = 1 THEN title' ELSE "", body |-> flushed'[k].body]]
          /\ deckFile'.exists]_vars

C6_Witness ==
    /\ pc = "done"
    /\ queries >= 2
    /\ base >= 2
    /\ Len(deckFile.slides) >= base + 2

---------------------------------------------------------------------------
(* Claims about title normalisation *)

CanonicalLabels == {"Summary:", "Case study:", "Q&A:"}

Triggers ==
    {"summary", "question", "questions", "mcq", "fill in the blank",
     "fill in the blanks", "case study", "case studies"}

Triggered(t) == \E g \in Triggers : Contains(Lower(t), g)

LabelFor(t) ==
    IF Contains(Lower(t), "summary") THEN "Summary:"
    ELSE IF Contains(Lower(t), "case study") \/ Contains(Lower(t), "case studies")
         THEN "Case study:"
         ELSE "Q&A:"

\* C9 as stated: the title used for pagination is a canonical label exactly when
\* the lowercase query contains a trigger, the label follows the order summary,
\* case study, Q&A, and without a trigger the title is the query verbatim.
C9_AsStated ==
    pc \in {"loop", "done"} =>
        /\ title \in CanonicalLabels <=> Triggered(query_text)
        /\ Triggered(query_text) => title = LabelFor(query_text)
        /\ ~Triggered(query_text) => title = query_text

\* C9 amended: the title is replaced by a canonical label exactly when the
\* lowercase query contains a trigger, the label following the order summary,
\* case study, Q&A; without a trigger the title is the query verbatim, also when
\* the query is itself a canonical label.
C9_TitleNormalization ==
    pc \in {"loop", "done"} =>
        /\ Triggered(query_text) => title = LabelFor(query_text)
        /\ ~Triggered(query_text) => title = query_text

C9_Witness ==
    /\ pc = "done"
    /\ query_text = "Write a MCQ on a case study"
    /\ title = "Case study:"
    /\ prs[1].title = "Case study:"

---------------------------------------------------------------------------
(* Claims about the vector index *)

\* the ids a single sync of documents d leaves in an empty store
FreshSync(d) == AddToChroma({}, ChunkIds(d), {}).index

C4_ResetCorrect ==
    (trail = <<"reset", "update">> /\ skipped = 0) => index = FreshSync(data)

====
